---------------------------- MODULE Spec2Model ----------------------------
(***************************************************************************)
(* RFQ similarity pipeline (Task B): grade normalisation and reference     *)
(* join, range-string parsing, feature engineering and pairwise similarity *)
(* with top-3 retrieval.                                                   *)
(*                                                                         *)
(* Conventions of the model                                                *)
(*   - a Python str is a sequence of one-character strings; the empty      *)
(*     string is << >>;                                                    *)
(*   - a missing (None / NaN) text cell is the one-element sequence None,  *)
(*     which is no string of the alphabets used;                           *)
(*   - a numeric cell is << >> (NaN) or a fraction; an id cell is << >>    *)
(*     (NaN) or <<k>>;                                                     *)
(*   - a float that the code derives by division is an exact fraction      *)
(*     <<n, d>> in lowest terms with d > 0.                                *)
(***************************************************************************)
EXTENDS Integers, Sequences, FiniteSets, TLC

VARIABLES
    pc,            \* position of the run: which stage has completed
    grade,         \* clean_grade_string: argument
    grade_clean,   \* clean_grade_string: return value
    value_str,     \* parse_single_range: argument
    parsed,        \* parse_single_range: returned (min_val, max_val, mid_val)
    rfq_df,        \* normalize_grades: the RFQ table (its 'grade' column)
    reference_df,  \* normalize_grades: the reference table ('Grade/Material')
    runs,          \* normalize_grades: what each run so far returned
    parsed_df,     \* engineer_similarity_features: the table it is given
    feature_df,    \* engineer_similarity_features: the table it returns
    similarity_results, \* calculate_rfq_similarity: how the call ended
    intervals,     \* interval_overlap_ratio: (min1, max1, min2, max2)
    overlap        \* interval_overlap_ratio: return value

vars == <<pc, grade, grade_clean, value_str, parsed, rfq_df, reference_df, runs,
          parsed_df, feature_df, similarity_results, intervals, overlap>>

cleanVars == <<grade, grade_clean>>
parseVars == <<value_str, parsed>>
normVars  == <<rfq_df, reference_df, runs>>
simVars   == <<parsed_df, feature_df, similarity_results>>
overlapVars == <<intervals, overlap>>

---------------------------------------------------------------------------
(* Text                                                                    *)

None == <<"None">>

IsNone(s) == s = None

LowerCase == <<"a","b","c","d","e","f","g","h","i","j","k","l","m",
               "n","o","p","q","r","s","t","u","v","w","x","y","z">>

UpperCase == <<"A","B","C","D","E","F","G","H","I","J","K","L","M",
               "N","O","P","Q","R","S","T","U","V","W","X","Y","Z">>

Digits == {"0","1","2","3","4","5","6","7","8","9"}

Whitespace == {" ", "\t", "\n"}

UpperOf == [c \in {LowerCase[i] : i \in DOMAIN LowerCase} |->
               UpperCase[CHOOSE i \in DOMAIN LowerCase : LowerCase[i] = c]]

\* str.upper() on one character
UpperChar(c) == IF c \in DOMAIN UpperOf THEN UpperOf[c] ELSE c

\* str.upper()
Upper(s) == [i \in 1..Len(s) |-> UpperChar(s[i])]

\* str.strip(): leading and trailing whitespace removed
Strip(s) ==
    LET keep == {i \in 1..Len(s) : s[i] \notin Whitespace}
    IN  IF keep = {} THEN << >>
        ELSE LET lo == CHOOSE i \in keep : \A j \in keep : i <= j
                 hi == CHOOSE i \in keep : \A j \in keep : j <= i
             IN  SubSeq(s, lo, hi)

\* str.replace(c, ''): every occurrence of the character c removed
RemoveChar(s, c) == SelectSeq(s, LAMBDA ch : ch # c)

\* re.sub(r'\+.*$', '', s): the text from the first '+' to the end removed.
\* ('.' does not match a line break; after strip() the alphabets of this
\* model hold no inner line break.)
StripSuffix(s) ==
    LET plus == {i \in 1..Len(s) : s[i] = "+"}
    IN  IF plus = {} THEN s
        ELSE SubSeq(s, 1, (CHOOSE i \in plus : \A j \in plus : i <= j) - 1)

\* re.match(r'^DX\d{2}$', s)
MatchesDX(s) ==
    /\ Len(s) = 4
    /\ s[1] = "D"
    /\ s[2] = "X"
    /\ s[3] \in Digits
    /\ s[4] \in Digits

---------------------------------------------------------------------------
(* grade_normalizer.clean_grade_string                                     *)

\* pd.isna(grade) is true of None / NaN only: the empty string is a value.
clean_grade_string(g) ==
    IF IsNone(g) THEN None
    ELSE LET upper    == Upper(Strip(g))
             nosuffix == StripSuffix(upper)
             compact  == RemoveChar(RemoveChar(nosuffix, " "), "-")
         IN  IF MatchesDX(compact) THEN Append(compact, "D") ELSE compact

---------------------------------------------------------------------------
(* Inputs of clean_grade_string                                            *)

MaxGradeLen == 4

GradeAlphabet == {"d", "X", "5", "0", " ", "-", "+"}

RECURSIVE StringsUpTo(_, _)
StringsUpTo(alphabet, n) ==
    IF n = 0 THEN {<< >>}
    ELSE LET shorter == StringsUpTo(alphabet, n - 1)
         IN  shorter \cup {Append(s, c) : s \in shorter, c \in alphabet}

GradeExamples ==
    { <<"d","x","5","1">>,
      <<"S","3","5","5","J","R","+","N">>,
      <<"D","X","5","1","D">>,
      <<"D","X","5","1","0">>,
      <<"D","X"," ","5","-","1","+","Z"," ">> }

GradeInputs == {None} \cup StringsUpTo(GradeAlphabet, MaxGradeLen) \cup GradeExamples

CleanInit ==
    /\ pc = "clean:start"
    /\ grade \in GradeInputs
    /\ grade_clean = None
    /\ value_str = None
    /\ parsed = << >>
    /\ rfq_df = << >>
    /\ reference_df = << >>
    /\ runs = << >>
    /\ parsed_df = << >>
    /\ feature_df = << >>
    /\ similarity_results = << >>
    /\ intervals = << >>
    /\ overlap = << >>

CleanGradeString ==
    /\ pc = "clean:start"
    /\ grade_clean' = clean_grade_string(grade)
    /\ pc' = "clean:done"
    /\ UNCHANGED <<grade, parseVars, normVars, simVars, overlapVars>>

CleanNext == CleanGradeString

SpecClean == CleanInit /\ [][CleanNext]_vars

\* C10: clean_grade_string returns None for a None or empty input, and for
\* any other input the string uppercased and trimmed, cut at the first '+',
\* with spaces and dashes removed and a 'D' appended exactly when that
\* leaves 'DX' followed by exactly two digits.
ClaimedCleanGrade(g) ==
    IF g = None \/ g = << >> THEN None
    ELSE LET cut == StripSuffix(Upper(Strip(g)))
             kept == SelectSeq(cut, LAMBDA ch : ch \notin {" ", "-"})
             isDX == /\ Len(kept) = 4
                     /\ SubSeq(kept, 1, 2) = <<"D", "X">>
                     /\ \A i \in 3..4 : kept[i] \in Digits
         IN  IF isDX THEN kept \o <<"D">> ELSE kept

C10_CleanGradeAsClaimed ==
    pc = "clean:done" => grade_clean = ClaimedCleanGrade(grade)

---------------------------------------------------------------------------
(* Exact fractions: the values of Python floats before rounding            *)

RECURSIVE GCD(_, _)
GCD(a, b) == IF b = 0 THEN a ELSE GCD(b, a % b)

Abs(x) == IF x < 0 THEN -x ELSE x

\* the fraction n/d (d # 0) in lowest terms, denominator positive
Frac(n, d) ==
    LET g == GCD(Abs(n), Abs(d))
        sgn == IF d < 0 THEN -1 ELSE 1
    IN  <<sgn * (n \div g), sgn * (d \div g)>>

FAdd(x, y) == Frac(x[1] * y[2] + y[1] * x[2], x[2] * y[2])
FSub(x, y) == Frac(x[1] * y[2] - y[1] * x[2], x[2] * y[2])
FMul(x, y) == Frac(x[1] * y[1], x[2] * y[2])
FDiv(x, y) == Frac(x[1] * y[2], x[2] * y[1])
FLeq(x, y) == x[1] * y[2] <= y[1] * x[2]
FLess(x, y) == x[1] * y[2] < y[1] * x[2]
FInt(n) == <<n, 1>>

---------------------------------------------------------------------------
(* range_parser.parse_single_range                                         *)
(* The characters U+2264, U+2265 and U+2013 are written "LE", "GE", "EN". *)

NaN == << >>

UnitChars == {c \in {LowerCase[i] : i \in DOMAIN LowerCase}
                    \cup {UpperCase[i] : i \in DOMAIN UpperCase} : TRUE}
             \cup {"%", "DEG"}

NumberChars == Digits \cup {"."}

\* the k-th smallest element of a set of integers
NthSmallest(S, k) == CHOOSE i \in S : Cardinality({j \in S : j <= i}) = k

\* re.sub(r'[A-Za-z%deg]', '', s)
RemoveUnits(s) == SelectSeq(s, LAMBDA ch : ch \notin UnitChars)

\* re.sub(r'\s+', ' ', s): every run of whitespace becomes one blank
CollapseWhitespace(s) ==
    LET keep == {i \in 1..Len(s) :
                    s[i] \notin Whitespace \/ i = 1 \/ s[i-1] \notin Whitespace}
    IN  [k \in 1..Cardinality(keep) |->
            IF s[NthSmallest(keep, k)] \in Whitespace THEN " "
            ELSE s[NthSmallest(keep, k)]]

\* sub in s, for a sub of one or two characters
Contains(s, sub) ==
    \E i \in 1..(Len(s) - Len(sub) + 1) : SubSeq(s, i, i + Len(sub) - 1) = sub

\* re.findall(r'[\d.]+', s): the maximal runs of digits and dots, in order
FindNumbers(s) ==
    LET isNum(i) == s[i] \in NumberChars
        starts == {i \in 1..Len(s) : isNum(i) /\ (i = 1 \/ ~isNum(i-1))}
        endOf(i) == CHOOSE j \in i..Len(s) :
                        /\ \A k \in i..j : isNum(k)
                        /\ j = Len(s) \/ ~isNum(j+1)
    IN  [k \in 1..Cardinality(starts) |->
            SubSeq(s, NthSmallest(starts, k), endOf(NthSmallest(starts, k)))]

DigitValue(c) ==
    CASE c = "0" -> 0 [] c = "1" -> 1 [] c = "2" -> 2 [] c = "3" -> 3 [] c = "4" -> 4
      [] c = "5" -> 5 [] c = "6" -> 6 [] c = "7" -> 7 [] c = "8" -> 8 [] c = "9" -> 9

RECURSIVE IntOfDigits(_)
IntOfDigits(ds) ==
    IF ds = << >> THEN 0
    ELSE 10 * IntOfDigits(SubSeq(ds, 1, Len(ds) - 1)) + DigitValue(ds[Len(ds)])

RECURSIVE Pow10(_)
Pow10(k) == IF k = 0 THEN 1 ELSE 10 * Pow10(k - 1)

\* float(token) for a token of digits and dots: <<value>>, or ValueError
\* when the token holds no digit or more than one dot
ValueError == <<"ValueError">>

float(token) ==
    LET dots == {i \in 1..Len(token) : token[i] = "."}
        digits == SelectSeq(token, LAMBDA ch : ch # ".")
    IN  IF Cardinality(dots) > 1 \/ digits = << >> THEN ValueError
        ELSE LET decimals == IF dots = {} THEN 0
                             ELSE Len(token) - (CHOOSE i \in dots : TRUE)
             IN  <<Frac(IntOfDigits(digits), Pow10(decimals))>>

Unparseable == <<NaN, NaN, NaN>>

HasUpperBound_UnicodeOnly(text) == Contains(text, <<"LE">>)

\* '\u2264' in value_str or '<=' in value_str
HasUpperBound(text) == Contains(text, <<"LE">>) \/ Contains(text, <<"<", "=">>)

\* '\u2265' in value_str or '>=' in value_str
HasLowerBound(text) == Contains(text, <<"GE">>) \/ Contains(text, <<">", "=">>)

\* '-' in clean_str or '\u2013' in clean_str
HasRangeMarker(text) == Contains(text, <<"-">>) \/ Contains(text, <<"EN">>)

\* The numeric components of the result are <<fraction>>, the missing ones NaN.
parse_single_range(v) ==
    IF IsNone(v) \/ v = << >> THEN Unparseable
    ELSE
    LET stripped == Strip(v)
        clean_str == Strip(CollapseWhitespace(RemoveUnits(stripped)))
        numbers == FindNumbers(clean_str)
    IN  IF HasUpperBound(stripped) THEN
            \* numbers[0] raises IndexError, float() ValueError: both caught
            IF numbers = << >> \/ float(numbers[1]) = ValueError THEN Unparseable
            ELSE LET max_val == float(numbers[1])[1]
                 IN  <<NaN, <<max_val>>, <<FDiv(max_val, FInt(2))>>>>
        ELSE IF HasLowerBound(stripped) THEN
            IF numbers = << >> \/ float(numbers[1]) = ValueError THEN Unparseable
            ELSE <<float(numbers[1]), NaN, NaN>>
        ELSE IF HasRangeMarker(clean_str) THEN
            IF Len(numbers) >= 2
            THEN IF float(numbers[1]) = ValueError \/ float(numbers[2]) = ValueError
                 THEN Unparseable
                 ELSE LET min_val == float(numbers[1])[1]
                          max_val == float(numbers[2])[1]
                      IN  <<<<min_val>>, <<max_val>>,
                            <<FDiv(FAdd(min_val, max_val), FInt(2))>>>>
            ELSE Unparseable
        ELSE
            IF numbers # << >>
            THEN IF float(numbers[1]) = ValueError THEN Unparseable
                 ELSE <<NaN, NaN, float(numbers[1])>>
            ELSE Unparseable

---------------------------------------------------------------------------
(* Inputs of parse_single_range                                            *)

MaxRangeLen == 4

RangeAlphabet == {"LE", "GE", "<", ">", "=", "-", "EN", "1", "5", ".", "M"}

RangeExamples ==
    { <<"LE","0",".","1","7">>,
      <<"3","6","0","-","5","1","0"," ","M","P","a">>,
      <<"GE","2","3","5"," ","M","P","a">>,
      <<"0",".","1","7">>,
      <<" ","1","2"," "," ","EN"," ","1","8"," ","%">> }

RangeInputs == {None} \cup StringsUpTo(RangeAlphabet, MaxRangeLen) \cup RangeExamples

ParseInit ==
    /\ pc = "parse:start"
    /\ value_str \in RangeInputs
    /\ parsed = << >>
    /\ grade = None
    /\ grade_clean = None
    /\ rfq_df = << >>
    /\ reference_df = << >>
    /\ runs = << >>
    /\ parsed_df = << >>
    /\ feature_df = << >>
    /\ similarity_results = << >>
    /\ intervals = << >>
    /\ overlap = << >>

ParseSingleRange ==
    /\ pc = "parse:start"
    /\ parsed' = parse_single_range(value_str)
    /\ pc' = "parse:done"
    /\ UNCHANGED <<value_str, cleanVars, normVars, simVars, overlapVars>>

ParseNext == ParseSingleRange

SpecParse == ParseInit /\ [][ParseNext]_vars

\* What the claims about parse_single_range call "the numeric tokens" of a
\* text: the runs of digits and dots left once the unit characters are gone.
TokensOf(text) == FindNumbers(RemoveUnits(text))

\* The markers as the claim names them.
UpperMarkerIn(text) ==
    \E i \in 1..Len(text) :
        text[i] = "LE" \/ (text[i] = "<" /\ i < Len(text) /\ text[i+1] = "=")

LowerMarkerIn(text) ==
    \E i \in 1..Len(text) :
        text[i] = "GE" \/ (text[i] = ">" /\ i < Len(text) /\ text[i+1] = "=")

RangeMarkerIn(text) == \E i \in 1..Len(text) : text[i] \in {"-", "EN"}

ValidToken(tokens, k) == Len(tokens) >= k /\ float(tokens[k]) # ValueError

TokenValue(tokens, k) == float(tokens[k])[1]

Half(x) == FDiv(x, FInt(2))

\* The three rules in the claimed priority. With strict = TRUE a rule that
\* applies must produce its numeric result; with strict = FALSE the result
\* is all-None when a token the rule reads is missing or no valid number.
PriorityRules(text, result, strict) ==
    LET tokens == TokensOf(text)
    IN  IF text = None \/ text = << >> THEN result = Unparseable
        ELSE IF UpperMarkerIn(text) THEN
            IF ValidToken(tokens, 1)
            THEN result = <<NaN, <<TokenValue(tokens, 1)>>,
                            <<Half(TokenValue(tokens, 1))>>>>
            ELSE ~strict /\ result = Unparseable
        ELSE IF LowerMarkerIn(text) THEN
            IF ValidToken(tokens, 1)
            THEN result = <<<<TokenValue(tokens, 1)>>, NaN, NaN>>
            ELSE ~strict /\ result = Unparseable
        ELSE IF RangeMarkerIn(text) /\ Len(tokens) >= 2 THEN
            IF ValidToken(tokens, 1) /\ ValidToken(tokens, 2)
            THEN result = <<<<TokenValue(tokens, 1)>>, <<TokenValue(tokens, 2)>>,
                            <<Half(FAdd(TokenValue(tokens, 1), TokenValue(tokens, 2)))>>>>
            ELSE ~strict /\ result = Unparseable
        ELSE TRUE

\* The three worked examples of the claim.
RangeExamplesParsed ==
    /\ parse_single_range(<<"LE","0",".","1","7">>)
         = <<NaN, <<Frac(17, 100)>>, <<Frac(85, 1000)>>>>
    /\ parse_single_range(<<"3","6","0","-","5","1","0"," ","M","P","a">>)
         = <<<<FInt(360)>>, <<FInt(510)>>, <<FInt(435)>>>>
    /\ parse_single_range(<<"GE","2","3","5"," ","M","P","a">>)
         = <<<<FInt(235)>>, NaN, NaN>>

\* C9 as stated: parse_single_range applies its rules in fixed priority: an
\* upper-bound marker gives (None, x, x/2) with x the first numeric token,
\* even beside a lower-bound or range marker; else a lower-bound marker
\* gives (x, None, None); else a hyphen or en-dash with at least two numeric
\* tokens gives (a, b, (a+b)/2); None or empty input gives all None.
C9_PriorityAsClaimed ==
    pc = "parse:done" => PriorityRules(value_str, parsed, TRUE)

\* C9 amended: the same priority, each rule producing its numeric result
\* when the token(s) it reads exist and are valid numbers, and
\* (None, None, None) otherwise; the three worked examples hold.
C9_PriorityAmended ==
    pc = "parse:done" =>
        /\ PriorityRules(value_str, parsed, FALSE)
        /\ RangeExamplesParsed

\* C9 witness: a text with an upper-bound marker next to a lower-bound or
\* range marker has been parsed by the upper-bound rule.
C9_Witness ==
    /\ pc = "parse:done"
    /\ value_str # None
    /\ UpperMarkerIn(value_str)
    /\ LowerMarkerIn(value_str) \/ RangeMarkerIn(value_str)
    /\ parsed[1] = NaN
    /\ parsed[2] # NaN


\* C15: when no bound or range rule applies to a text (no upper- or
\* lower-bound marker, and not both a hyphen or en-dash and two numeric
\* tokens), parse_single_range returns (None, None, v) with v the first
\* numeric token, and (None, None, None) only when no token can be
\* extracted or the token is no valid number.
C15_SingleNumberOtherwise ==
    /\ pc = "parse:done"
    /\ value_str # None /\ value_str # << >>
    /\ ~UpperMarkerIn(value_str) /\ ~LowerMarkerIn(value_str)
    /\ ~(RangeMarkerIn(value_str) /\ Len(TokensOf(value_str)) >= 2)
    => IF ValidToken(TokensOf(value_str), 1)
       THEN parsed = <<NaN, NaN, <<TokenValue(TokensOf(value_str), 1)>>>>
       ELSE parsed = Unparseable

---------------------------------------------------------------------------
(* difflib.get_close_matches, as create_grade_mapping calls it             *)

\* Code-point order of the characters of grade keys.
CodeOrder == <<"\t", "\n", " ", "+", "-">>
             \o <<"0","1","2","3","4","5","6","7","8","9">>
             \o UpperCase \o LowerCase

CodeOf == [c \in {CodeOrder[i] : i \in DOMAIN CodeOrder} |->
              CHOOSE i \in DOMAIN CodeOrder : CodeOrder[i] = c]

Code(c) == CodeOf[c]

\* a < b for Python strings
StrLess(a, b) ==
    \E i \in 1..Len(b) :
        /\ i <= Len(a) + 1
        /\ SubSeq(a, 1, i - 1) = SubSeq(b, 1, i - 1)
        /\ i = Len(a) + 1 \/ Code(a[i]) < Code(b[i])

\* `body` of the value of an expression, the expression evaluated once
Bind(value, body(_)) == CHOOSE r \in {body(v) : v \in {value}} : TRUE

\* The matching blocks a[i..i+k-1] = b[j..j+k-1], as <<i, j, k>> with
\* k >= 1, inside the windows alo..ahi of a and blo..bhi of b.
MatchingBlocks(a, alo, ahi, b, blo, bhi) ==
    {m \in (alo..ahi) \X (blo..bhi) \X (1..(ahi - alo + 1)) :
        /\ m[1] + m[3] - 1 <= ahi
        /\ m[2] + m[3] - 1 <= bhi
        /\ \A d \in 0..(m[3] - 1) : a[m[1] + d] = b[m[2] + d]}

\* longer first, then earlier in a, then earlier in b
BetterBlock(m, n) ==
    \/ m[3] > n[3]
    \/ m[3] = n[3] /\ m[1] < n[1]
    \/ m[3] = n[3] /\ m[1] = n[1] /\ m[2] <= n[2]

\* SequenceMatcher.find_longest_match without junk: the longest block; of
\* the longest, the one starting earliest in a, then earliest in b.
\* <<alo, blo, 0>> when no character matches.
FindLongestMatch(a, alo, ahi, b, blo, bhi) ==
    Bind(MatchingBlocks(a, alo, ahi, b, blo, bhi),
         LAMBDA blocks :
            IF blocks = {} THEN <<alo, blo, 0>>
            ELSE CHOOSE m \in blocks : \A n \in blocks : BetterBlock(m, n))

\* SequenceMatcher.get_matching_blocks: the total size of the blocks found
\* by splitting left and right of each longest match.
RECURSIVE MatchingSize(_, _, _, _, _, _)
MatchingSize(a, alo, ahi, b, blo, bhi) ==
    IF alo > ahi \/ blo > bhi THEN 0
    ELSE Bind(FindLongestMatch(a, alo, ahi, b, blo, bhi),
              LAMBDA m :
                 IF m[3] = 0 THEN 0
                 ELSE m[3]
                      + MatchingSize(a, alo, m[1] - 1, b, blo, m[2] - 1)
                      + MatchingSize(a, m[1] + m[3], ahi, b, m[2] + m[3], bhi))

\* SequenceMatcher(None, a, b).ratio() = 2.0 * matches / (len(a) + len(b)),
\* 1.0 for two empty strings; an exact fraction here.
SequenceRatio(a, b) ==
    IF Len(a) + Len(b) = 0 THEN FInt(1)
    ELSE Frac(2 * MatchingSize(a, 1, Len(a), b, 1, Len(b)), Len(a) + Len(b))

\* The raw grade strings the runs of normalize_grades draw from.
RfqGradePool ==
    { None,
      <<"S","2","3","5">>,
      <<"s","2","3","5","j","r">>,
      <<"S","2">> }

RefNamePool ==
    { None,
      <<"S","2","3","5","J","R","C">>,
      <<"S","2","3","5","J","2","G">>,
      <<"S","2","3","5","+","N">>,
      <<"S","2","3","5","+","Q","T">>,
      <<"S","-","2"," ","3","5">> }

\* SequenceRatio over the keys of the pools, computed once.
RatioTable ==
    LET keys(pool) == {clean_grade_string(g) : g \in pool} \ {None}
    IN  [pair \in keys(RefNamePool) \X keys(RfqGradePool) |->
            SequenceRatio(pair[1], pair[2])]

Ratio(a, b) ==
    IF <<a, b>> \in DOMAIN RatioTable THEN RatioTable[<<a, b>>] ELSE SequenceRatio(a, b)

\* cutoff=0.8
Cutoff == Frac(8, 10)

\* (ratio, x) > (ratio, y) as Python compares tuples
ScoredAbove(ratio, x, y) ==
    \/ FLess(ratio[y], ratio[x])
    \/ ratio[y] = ratio[x] /\ StrLess(y, x)

\* get_close_matches(word, possibilities, n=1, cutoff=0.8): seq1 is the
\* possibility, seq2 the word; the best of the (ratio, x) pairs at or above
\* the cutoff, compared as tuples. The set of results: empty or one key.
get_close_matches(word, possibilities) ==
    Bind([x \in possibilities |-> Ratio(x, word)],
         LAMBDA ratio :
            {x \in possibilities :
                /\ FLeq(Cutoff, ratio[x])
                /\ \A y \in possibilities :
                       FLeq(Cutoff, ratio[y]) /\ y # x => ScoredAbove(ratio, x, y)})

---------------------------------------------------------------------------
(* grade_normalizer.normalize_grades                                       *)
(* A table is the sequence of its rows. Of the RFQ table the model keeps   *)
(* the 'grade' column, of the reference table 'Grade/Material'; `row` is   *)
(* the row's label in the table it came from.                              *)

\* the rows of a table whose column `grade_clean` is not null
NonNull(table) == SelectSeq(table, LAMBDA r : ~IsNone(r.grade_clean))

\* set(df['grade_clean'].dropna())
GradeSet(table) == {table[i].grade_clean : i \in {j \in DOMAIN table : ~IsNone(table[j].grade_clean)}}

\* rfq_work['grade_clean'] = rfq_work['grade'].apply(clean_grade_string)
CleanRfq(rfq) ==
    [i \in 1..Len(rfq) |->
        [row |-> i, grade |-> rfq[i], grade_clean |-> clean_grade_string(rfq[i])]]

\* ref_work['grade_clean'] = ref_work['Grade/Material'].apply(clean_grade_string)
CleanReference(ref) ==
    [i \in 1..Len(ref) |->
        [row |-> i, material |-> ref[i], grade_clean |-> clean_grade_string(ref[i])]]

\* select_best_entry: the group's rows come in the table's order
\* group['Grade/Material'].str.upper().str.replace(' ', '').str.replace('-', '')
OriginalClean(r) == RemoveChar(RemoveChar(Upper(r.material), " "), "-")

\* group['Grade/Material'].str.len().idxmin(): the first row of minimal length
ShortestName(group) ==
    CHOOSE i \in DOMAIN group :
        /\ \A j \in DOMAIN group : Len(group[i].material) <= Len(group[j].material)
        /\ \A j \in 1..(i-1) : Len(group[j].material) > Len(group[i].material)

\* the first row of the group, whatever its name
SelectFirstEntry(group) == group[1]

select_best_entry(group) ==
    IF Len(group) = 1 THEN group[1]
    ELSE Bind(SelectSeq(group, LAMBDA r : OriginalClean(r) = r.grade_clean),
              LAMBDA exact_matches :
                 IF Len(exact_matches) > 0 THEN exact_matches[1]
                 ELSE group[ShortestName(group)])

\* the k-th key of a set of keys in sorted order
NthKey(keys, k) ==
    CHOOSE x \in keys : Cardinality({y \in keys : y = x \/ StrLess(y, x)}) = k

DeduplicateKeepingAll(ref_work) == NonNull(ref_work)

\* ref_df.groupby('grade_clean').apply(select_best_entry): one row per
\* non-null key, the groups in sorted key order (null keys form no group)
deduplicate_reference_data(ref_work) ==
    Bind(GradeSet(ref_work),
         LAMBDA keys :
            [k \in 1..Cardinality(keys) |->
                Bind(NthKey(keys, k),
                     LAMBDA key :
                        select_best_entry(
                            SelectSeq(ref_work, LAMBDA r : r.grade_clean = key)))])

\* The iteration orders a Python set of strings can have: string hashes are
\* salted per process, so every order of the elements is possible.
IterationOrders(S) ==
    {order \in [1..Cardinality(S) -> S] :
        \A i, j \in 1..Cardinality(S) : order[i] = order[j] => i = j}

\* the substring loop without its guard on the length of the RFQ key
SubstringMatchAnyLength(g, order) ==
    Bind({i \in DOMAIN order : Contains(order[i], g) \/ Contains(g, order[i])},
         LAMBDA hits : {order[i] : i \in {h \in hits : \A h2 \in hits : h <= h2}})

\* `for ref_grade in ref_grades: if len(grade) >= 4 and (grade in ref_grade
\* or ref_grade in grade): ... break`: the first key of the order that
\* qualifies; the result is the empty set or that one key.
SubstringMatch(g, order) ==
    Bind({i \in DOMAIN order :
            /\ Len(g) >= 4
            /\ Contains(order[i], g) \/ Contains(g, order[i])},
         LAMBDA hits : {order[i] : i \in {h \in hits : \A h2 \in hits : h <= h2}})

\* What one RFQ key maps to: the empty set (unmapped) or one reference key.
MatchOf(g, ref_grades, order) ==
    IF g \in ref_grades THEN {g}
    ELSE Bind(get_close_matches(g, ref_grades),
              LAMBDA matches : IF matches # {} THEN matches ELSE SubstringMatch(g, order))

\* create_grade_mapping, with `order` the iteration order of ref_grades
create_grade_mapping(rfq_work, ref_clean, order) ==
    Bind([g \in GradeSet(rfq_work) |-> MatchOf(g, GradeSet(ref_clean), order)],
         LAMBDA match :
            [g \in {k \in DOMAIN match : match[k] # {}} |->
                CHOOSE x \in match[g] : TRUE])

\* DataFrame.merge(how='left'): every left row, in order, once per right row
\* with an equal key (null keys equal null keys in pandas), and once with
\* null reference columns when no right row matches.
RECURSIVE LeftMerge(_, _)
MergedRow(l, material, ref_row) ==
    [rfq_row |-> l.row, grade |-> l.grade, grade_clean |-> l.grade_clean,
     grade_mapped |-> l.grade_mapped, material |-> material, ref_row |-> ref_row]

MergeOne(l, hits) ==
    IF hits = << >> THEN << MergedRow(l, None, 0) >>
    ELSE [h \in 1..Len(hits) |-> MergedRow(l, hits[h].material, hits[h].row)]

LeftMerge(left, right) ==
    IF left = << >> THEN << >>
    ELSE Bind(SelectSeq(right, LAMBDA r : r.grade_clean = Head(left).grade_mapped),
              LAMBDA hits : MergeOne(Head(left), hits))
         \o LeftMerge(Tail(left), right)

\* join_with_reference: grade_mapped = grade_clean.map(grade_mapping), then
\* the left merge on grade_mapped = grade_clean
join_with_reference(rfq_work, ref_clean, grade_mapping) ==
    LeftMerge([i \in 1..Len(rfq_work) |->
                 [row |-> rfq_work[i].row, grade |-> rfq_work[i].grade,
                  grade_clean |-> rfq_work[i].grade_clean,
                  grade_mapped |->
                     IF rfq_work[i].grade_clean \in DOMAIN grade_mapping
                     THEN grade_mapping[rfq_work[i].grade_clean]
                     ELSE None]],
              ref_clean)

\* normalize_grades: (enriched_df, grade_mapping), given the cleaned RFQ
\* table, the deduplicated reference table and the iteration order of the
\* set of reference keys
normalize_grades(rfq_work, ref_clean, order) ==
    Bind(create_grade_mapping(rfq_work, ref_clean, order),
         LAMBDA grade_mapping :
            [enriched_df |-> join_with_reference(rfq_work, ref_clean, grade_mapping),
             grade_mapping |-> grade_mapping,
             ref_clean |-> ref_clean])

---------------------------------------------------------------------------
(* Inputs of normalize_grades                                              *)

MaxRfq == 2
MaxRef == 2
MaxRuns == 2

RECURSIVE TablesUpTo(_, _)
TablesUpTo(cells, n) ==
    IF n = 0 THEN {<< >>}
    ELSE LET shorter == TablesUpTo(cells, n - 1)
         IN  shorter \cup {Append(t, c) : t \in shorter, c \in cells}

NormInit ==
    /\ pc = "norm"
    /\ rfq_df \in TablesUpTo(RfqGradePool, MaxRfq)
    /\ reference_df \in TablesUpTo(RefNamePool, MaxRef)
    /\ runs = << >>
    /\ grade = None
    /\ grade_clean = None
    /\ value_str = None
    /\ parsed = << >>
    /\ parsed_df = << >>
    /\ feature_df = << >>
    /\ similarity_results = << >>
    /\ intervals = << >>
    /\ overlap = << >>

\* One run of normalize_grades on the two tables; a later run starts from
\* the same unchanged tables (the function works on copies).
NormalizeGrades ==
    /\ pc = "norm"
    /\ Len(runs) < MaxRuns
    /\ \E rfq_work \in {CleanRfq(rfq_df)},
          ref_clean \in {deduplicate_reference_data(CleanReference(reference_df))} :
            \E order \in IterationOrders(GradeSet(ref_clean)) :
                runs' = Append(runs, normalize_grades(rfq_work, ref_clean, order))
    /\ UNCHANGED <<pc, rfq_df, reference_df, cleanVars, parseVars, simVars, overlapVars>>

NormNext == NormalizeGrades

SpecNorm == NormInit /\ [][NormNext]_vars

C8_Deterministic ==
    \A r1, r2 \in DOMAIN runs :
        /\ runs[r1].grade_mapping = runs[r2].grade_mapping
        /\ runs[r1].enriched_df = runs[r2].enriched_df

\* the distinct cleaned keys of a column of grade names, nulls dropped
CleanedKeys(column) == {clean_grade_string(column[i]) : i \in DOMAIN column} \ {None}

FuzzyAccepted(ref_key, rfq_key) == FLeq(Frac(8, 10), Ratio(ref_key, rfq_key))

ContainsEitherWay(ref_key, rfq_key) ==
    Contains(ref_key, rfq_key) \/ Contains(rfq_key, ref_key)

\* what the matchers, taken in their priority, allow for one RFQ key
MappedAsClaimed(mapping, g, ref_keys) ==
    IF g \in ref_keys
    THEN g \in DOMAIN mapping /\ mapping[g] = g
    ELSE IF \E x \in ref_keys : FuzzyAccepted(x, g)
    THEN /\ g \in DOMAIN mapping
         /\ mapping[g] \in ref_keys
         /\ FuzzyAccepted(mapping[g], g)
         /\ \A y \in ref_keys : FLeq(Ratio(y, g), Ratio(mapping[g], g))
    ELSE IF Len(g) >= 4 /\ \E x \in ref_keys : ContainsEitherWay(x, g)
    THEN /\ g \in DOMAIN mapping
         /\ mapping[g] \in ref_keys
         /\ ContainsEitherWay(mapping[g], g)
    ELSE g \notin DOMAIN mapping

\* C12: for every distinct cleaned RFQ key the matchers apply in fixed
\* priority: a key that is a cleaned reference key maps to itself; else it
\* maps to the closest reference key if the ratio is >= 0.8; else, when its
\* length is >= 4, to a reference key containing it or contained in it;
\* else it is absent. Every value is a cleaned reference key.
C12_MatcherPriority ==
    \A r \in DOMAIN runs :
        \E mapping \in {runs[r].grade_mapping},
           rfq_keys \in {CleanedKeys(rfq_df)},
           ref_keys \in {CleanedKeys(reference_df)} :
            /\ DOMAIN mapping \subseteq rfq_keys
            /\ \A g \in DOMAIN mapping : mapping[g] \in ref_keys
            /\ \A g \in rfq_keys : MappedAsClaimed(mapping, g, ref_keys)

\* C12 witness: one run mapped a key by closeness and another by
\* containment, neither being a reference key itself.
C12_Witness ==
    \E r \in DOMAIN runs :
        \E mapping \in {runs[r].grade_mapping}, ref_keys \in {CleanedKeys(reference_df)} :
            \E g, h \in DOMAIN mapping :
                /\ g \notin ref_keys /\ h \notin ref_keys
                /\ FuzzyAccepted(mapping[g], g)
                /\ \A x \in ref_keys : ~FuzzyAccepted(x, h)
                /\ ContainsEitherWay(mapping[h], h)

\* a reference name uppercased, spaces and dashes removed, suffix kept
NameWithoutSpacesAndDashes(name) == SelectSeq(Upper(name), LAMBDA ch : ch \notin {" ", "-"})

\* the rows of the reference table whose name cleans to the key
SourceRowsOf(key) ==
    {j \in DOMAIN reference_df :
        reference_df[j] # None /\ clean_grade_string(reference_df[j]) = key}

\* the row retained for a key follows the tie-break of the claim
RetainedAsClaimed(e) ==
    \E group \in {SourceRowsOf(e.grade_clean)} :
        /\ e.row \in group
        /\ e.material = reference_df[e.row]
        /\ Cardinality(group) > 1 =>
              \E exact \in {{j \in group :
                               NameWithoutSpacesAndDashes(reference_df[j]) = e.grade_clean}} :
                  IF exact # {} THEN e.row \in exact
                  ELSE \A j \in group : Len(reference_df[e.row]) <= Len(reference_df[j])

\* C13: after deduplicate_reference_data every cleaned key occurs in exactly
\* one reference row; for a key shared by several source rows the retained
\* row is one whose name, uppercased with spaces and dashes removed, equals
\* the key, and if there is none, a row of minimum name length.
C13_OneRowPerKey ==
    \A r \in DOMAIN runs :
        \E ref \in {runs[r].ref_clean} :
            /\ \A key \in CleanedKeys(reference_df) :
                   Cardinality({i \in DOMAIN ref : ref[i].grade_clean = key}) = 1
            /\ \A i \in DOMAIN ref :
                   /\ ref[i].grade_clean \in CleanedKeys(reference_df)
                   /\ RetainedAsClaimed(ref[i])

\* C13 witness: two names share a key, neither equals it once spaces and
\* dashes are removed, and the retained row is the shorter name, which comes
\* second in the table.
C13_Witness ==
    \E r \in DOMAIN runs :
        \E e \in {runs[r].ref_clean[i] : i \in DOMAIN runs[r].ref_clean} :
            /\ Cardinality(SourceRowsOf(e.grade_clean)) = 2
            /\ \A j \in SourceRowsOf(e.grade_clean) :
                   NameWithoutSpacesAndDashes(reference_df[j]) # e.grade_clean
            /\ e.row = 2
            /\ Len(reference_df[2]) < Len(reference_df[1])

---------------------------------------------------------------------------
(* feature_engineering.py                                                  *)
(*                                                                         *)
(* A DataFrame is [columns |-> the set of its column names, rows |-> the   *)
(* sequence of its rows]; a row is a function from the column names to     *)
(* cells. A call that raises returns [raised |-> the exception]; a call    *)
(* that returns has raised = "".                                           *)

Zero == FInt(0)
One  == FInt(1)

FMin(x, y) == IF FLeq(x, y) THEN x ELSE y
FMax(x, y) == IF FLeq(x, y) THEN y ELSE x
FAbs(x) == <<Abs(x[1]), x[2]>>

\* float arithmetic, NaN in giving NaN out
NaNAdd(x, y) == IF x = NaN \/ y = NaN THEN NaN ELSE FAdd(x, y)
NaNSub(x, y) == IF x = NaN \/ y = NaN THEN NaN ELSE FSub(x, y)
NaNHalf(x) == IF x = NaN THEN NaN ELSE FDiv(x, FInt(2))

\* Series.fillna(other), cell by cell, on a numeric and on a text column
FillNa(cell, other) == IF cell = NaN THEN other ELSE cell
FillNone(cell, other) == IF cell = None THEN other ELSE cell

\* df[name] = ... for every name of `names`, each new cell computed from the
\* row as it was before the assignments
Assign(df, names, cell(_, _)) ==
    [columns |-> df.columns \cup names,
     rows |-> [i \in DOMAIN df.rows |->
                 [c \in df.columns \cup names |->
                     IF c \in names THEN cell(df.rows[i], c) ELSE df.rows[i][c]]]]

\* df.drop(columns=names)
Drop(df, names) ==
    [columns |-> df.columns \ names,
     rows |-> [i \in DOMAIN df.rows |-> [c \in df.columns \ names |-> df.rows[i][c]]]]

\* the (min_col, max_col) pairs of create_dimension_intervals, each with
\* its feature_name = min_col.replace('_min', '').replace('_max', '')
dimension_pairs ==
    { [min_col |-> f \o "_min", max_col |-> f \o "_max", feature_name |-> f] :
        f \in {"thickness", "width", "height", "weight", "inner_diameter",
               "outer_diameter", "yield_strength", "tensile_strength"} }
    \cup { [min_col |-> "length_min", max_col |-> "length_min", feature_name |-> "length"] }

IntervalSuffixes == {"_interval_min", "_interval_max", "_center", "_width"}

\* the four cells that one pair adds to a row
IntervalCell(row, p, name) ==
    Bind(<<row[p.min_col], FillNa(row[p.max_col], row[p.min_col])>>,
         LAMBDA interval :
            CASE name = p.feature_name \o "_interval_min" -> interval[1]
              [] name = p.feature_name \o "_interval_max" -> interval[2]
              [] name = p.feature_name \o "_center" ->
                     NaNHalf(NaNAdd(interval[1], interval[2]))
              [] name = p.feature_name \o "_width" ->
                     NaNSub(interval[2], interval[1]))

\* The pairs read source columns only, which no pair writes, so the loop
\* over the pairs is one assignment of all the new columns.
create_dimension_intervals(df) ==
    Bind({p \in dimension_pairs : p.min_col \in df.columns /\ p.max_col \in df.columns},
         LAMBDA present :
            Assign(df,
                   {p.feature_name \o sfx : p \in present, sfx \in IntervalSuffixes},
                   LAMBDA row, name :
                      IntervalCell(row,
                                   CHOOSE p \in present :
                                       \E sfx \in IntervalSuffixes :
                                           name = p.feature_name \o sfx,
                                   name)))

categorical_features == {"coating", "finish", "form", "surface_type", "surface_protection"}

Unknown == <<"U", "n", "k", "n", "o", "w", "n">>

\* df[cat].str.strip().str.upper(), missing values left missing
StandardizeWithoutFill(df) ==
    Bind(categorical_features \cap df.columns,
         LAMBDA present :
            Assign(df,
                   {c \o "_clean" : c \in present},
                   LAMBDA row, name :
                      Upper(Strip(row[CHOOSE c \in present : name = c \o "_clean"]))))

\* df[cat].fillna('Unknown').str.strip().str.upper()
standardize_categorical_features(df) ==
    Bind(categorical_features \cap df.columns,
         LAMBDA present :
            Assign(df,
                   {c \o "_clean" : c \in present},
                   LAMBDA row, name :
                      Upper(Strip(FillNone(row[CHOOSE c \in present : name = c \o "_clean"],
                                           Unknown)))))

all_property_features ==
    {"Carbon_C_mid", "Manganese_Mn_mid", "Silicon_Si_mid", "Sulfur_S_mid",
     "Phosphorus_P_mid", "Chromium_Cr_mid", "Nickel_Ni_mid", "Molybdenum_Mo_mid",
     "Vanadium_V_mid", "Copper_Cu_mid", "Aluminum_Al_mid", "Titanium_Ti_mid",
     "Niobium_Nb_mid", "Boron_B_mid", "Nitrogen_N_mid", "Tensile_strength_Rm_mid",
     "Yield_strength_Re_or_Rp0.2_mid", "Elongation_A%_mid"}

min_coverage == 10

\* df[col].notna().sum() on a numeric and on a text column
NotNaCount(df, col) == Cardinality({i \in DOMAIN df.rows : df.rows[i][col] # NaN})
NotNoneCount(df, col) == Cardinality({i \in DOMAIN df.rows : df.rows[i][col] # None})

\* coverage = non_null_count / total_with_ref * 100 if total_with_ref > 0
\* else 0; coverage >= min_coverage
SufficientCoverage(non_null_count, total_with_ref) ==
    /\ total_with_ref > 0
    /\ non_null_count * 100 >= min_coverage * total_with_ref

\* every listed property column below the coverage is dropped
prepare_grade_properties(df) ==
    Bind(NotNoneCount(df, "Grade/Material"),
         LAMBDA total_with_ref :
            Drop(df, {f \in all_property_features \cap df.columns :
                        ~SufficientCoverage(NotNaCount(df, f), total_with_ref)}))

\* indexing a table or a row by a column it lacks
KeyError(key) == "KeyError: '" \o key \o "'"

\* df['Grade/Material'] of prepare_grade_properties raises KeyError on a
\* table without that column
engineer_similarity_features(enriched_df) ==
    IF "Grade/Material" \notin enriched_df.columns
    THEN [raised |-> KeyError("Grade/Material"), df_work |-> enriched_df]
    ELSE [raised |-> "",
          df_work |-> prepare_grade_properties(
                          standardize_categorical_features(
                              create_dimension_intervals(enriched_df)))]

\* the ratio taken on the arguments as given, without ordering each interval
OverlapWithoutSwap(min1, max1, min2, max2) ==
    IF min1 = NaN \/ max1 = NaN \/ min2 = NaN \/ max2 = NaN THEN Zero
    ELSE Bind(<<FMax(Zero, FSub(FMin(max1, max2), FMax(min1, min2))),
                FSub(FMax(max1, max2), FMin(min1, min2))>>,
              LAMBDA overlap_union :
                 IF FLess(Zero, overlap_union[2])
                 THEN FDiv(overlap_union[1], overlap_union[2])
                 ELSE Zero)

\* the overlap taken relative to the length of the first interval
OverlapOverFirst(min1, max1, min2, max2) ==
    IF min1 = NaN \/ max1 = NaN \/ min2 = NaN \/ max2 = NaN THEN Zero
    ELSE Bind(<<FMin(min1, max1), FMax(min1, max1), FMin(min2, max2), FMax(min2, max2)>>,
              LAMBDA m :
                 IF FLess(m[1], m[2])
                 THEN FDiv(FMax(Zero, FSub(FMin(m[2], m[4]), FMax(m[1], m[3]))),
                           FSub(m[2], m[1]))
                 ELSE Zero)

\* interval_overlap_ratio(min1, max1, min2, max2)
interval_overlap_ratio(min1, max1, min2, max2) ==
    IF min1 = NaN \/ max1 = NaN \/ min2 = NaN \/ max2 = NaN THEN Zero
    ELSE Bind(<<FMin(min1, max1), FMax(min1, max1), FMin(min2, max2), FMax(min2, max2)>>,
              LAMBDA m :
                 Bind(<<FMax(Zero, FSub(FMin(m[2], m[4]), FMax(m[1], m[3]))),
                        FSub(FMax(m[2], m[4]), FMin(m[1], m[3]))>>,
                      LAMBDA overlap_union :
                         IF FLess(Zero, overlap_union[2])
                         THEN FDiv(overlap_union[1], overlap_union[2])
                         ELSE Zero))

\* categorical_match(val1, val2)
categorical_match(val1, val2) ==
    IF val1 = None \/ val2 = None THEN Zero
    ELSE IF val1 = val2 THEN One ELSE Zero

---------------------------------------------------------------------------
(* similarity_calculator.py                                                *)

\* the (min_col, max_col) pairs listed by calculate_rfq_similarity that
\* exist in the table
DimensionFeatures(df) ==
    {p \in { [min_col |-> f \o "_interval_min", max_col |-> f \o "_interval_max"] :
                f \in {"thickness", "width", "weight", "inner_diameter",
                       "length", "height"} } :
        p.min_col \in df.columns /\ p.max_col \in df.columns}

\* The column names of the pipeline that contain '_clean', and those that
\* contain '_mid' (the merge suffix '_ref' columns are dropped by
\* join_with_reference).
NamesWithClean == {"grade_clean"} \cup {c \o "_clean" : c \in categorical_features}
NamesWithMid == all_property_features

\* [col for col in feature_df.columns if '_clean' in col and col != 'grade_clean']
CategoricalFeatures(df) == {col \in df.columns \cap NamesWithClean : col # "grade_clean"}

\* [col for col in feature_df.columns if '_mid' in col and
\*  feature_df[col].notna().sum() > 0]
GradePropertyFeatures(df) == {col \in df.columns \cap NamesWithMid : NotNaCount(df, col) > 0}

weights == [dimensions |-> Frac(50, 100),
            categorical |-> Frac(20, 100),
            grade_properties |-> Frac(30, 100)]

\* feature_df[feature_df['id'].notna()]: the positions of the valid rows,
\* in table order
ValidRows(df) ==
    SelectSeq([i \in DOMAIN df.rows |-> i], LAMBDA i : df.rows[i]["id"] # NaN)

\* == on two cells of a text column and of a numeric column: a missing cell
\* is a float NaN, which equals nothing
TextEq(a, b) == a # None /\ b # None /\ a = b
NumEq(a, b) == a # NaN /\ b # NaN /\ a = b

\* the exact-duplicate test of lines 85-87, on a table that has the columns
IsExactDuplicate(row1, row2) ==
    /\ TextEq(row1["grade"], row2["grade"])
    /\ NumEq(row1["thickness_center"], row2["thickness_center"])
    /\ NumEq(row1["width_center"], row2["width_center"])

\* the test indexes a row by a column the table lacks: KeyError. `and`
\* evaluates its right operand only when the left one is true.
DuplicateTestRaises(columns, row1, row2) ==
    \/ "grade" \notin columns
    \/ /\ TextEq(row1["grade"], row2["grade"])
       /\ \/ "thickness_center" \notin columns
          \/ /\ NumEq(row1["thickness_center"], row2["thickness_center"])
             /\ "width_center" \notin columns

\* the column whose absence makes the test raise
MissingKey(columns, row1, row2) ==
    IF "grade" \notin columns THEN "grade"
    ELSE IF "thickness_center" \notin columns THEN "thickness_center"
    ELSE "width_center"

\* the first pair of valid records, in scan order, whose test raises
FirstRaisingPair(df, valid) ==
    Bind({p \in (DOMAIN valid) \X (DOMAIN valid) :
            /\ p[1] # p[2]
            /\ DuplicateTestRaises(df.columns, df.rows[valid[p[1]]], df.rows[valid[p[2]]])},
         LAMBDA raising :
            IF raising = {} THEN << >>
            ELSE CHOOSE p \in raising :
                    \A q \in raising : p[1] < q[1] \/ (p[1] = q[1] /\ p[2] <= q[2]))

RECURSIVE FSum(_)
FSum(f) ==
    IF DOMAIN f = {} THEN Zero
    ELSE Bind(CHOOSE x \in DOMAIN f : TRUE,
              LAMBDA x : FAdd(f[x], FSum([y \in DOMAIN f \ {x} |-> f[y]])))

\* np.mean(values) if values else 0.0
MeanOrZero(f) ==
    IF DOMAIN f = {} THEN Zero ELSE FDiv(FSum(f), FInt(Cardinality(DOMAIN f)))

calculate_dimension_similarity(row1, row2, dimension_features) ==
    MeanOrZero([p \in dimension_features |->
                  interval_overlap_ratio(row1[p.min_col], row1[p.max_col],
                                         row2[p.min_col], row2[p.max_col])])

calculate_categorical_similarity(row1, row2, categorical) ==
    MeanOrZero([c \in categorical |-> categorical_match(row1[c], row2[c])])

\* df[prop].max() - df[prop].min(), NaN cells skipped
FeatureRange(df, prop) ==
    Bind({df.rows[i][prop] : i \in DOMAIN df.rows} \ {NaN},
         LAMBDA values :
            FSub(CHOOSE hi \in values : \A v \in values : FLeq(v, hi),
                 CHOOSE lo \in values : \A v \in values : FLeq(lo, v)))

calculate_grade_property_similarity(row1, row2, grade_property_features, df) ==
    MeanOrZero([prop \in {f \in grade_property_features :
                            /\ row1[f] # NaN
                            /\ row2[f] # NaN
                            /\ FLess(Zero, FeatureRange(df, f))} |->
                  FMax(Zero, FSub(One, FDiv(FAbs(FSub(row1[prop], row2[prop])),
                                            FeatureRange(df, prop))))])

\* the weighted sum with every group given the same weight 1
AggregateUnweighted(dim_sim, cat_sim, prop_sim) ==
    FAdd(FAdd(dim_sim, cat_sim), prop_sim)

aggregate_score(dim_sim, cat_sim, prop_sim) ==
    FAdd(FAdd(FMul(weights.dimensions, dim_sim),
              FMul(weights.categorical, cat_sim)),
         FMul(weights.grade_properties, prop_sim))

\* One entry of rfq_similarities. rfq_row and match_row are the positions
\* of the two records in feature_df; they are not columns of the result.
ScoredPair(df, i, j, sims) ==
    [rfq_id |-> df.rows[i]["id"],
     match_id |-> df.rows[j]["id"],
     similarity_score |-> aggregate_score(sims[1], sims[2], sims[3]),
     dimension_similarity |-> sims[1],
     categorical_similarity |-> sims[2],
     property_similarity |-> sims[3],
     rfq_row |-> i,
     match_row |-> j]

\* rfq_similarities of the record at position i: every other valid record
\* that is no exact duplicate, scored, in scan order
RfqSimilarities(df, valid, i) ==
    Bind(SelectSeq(valid, LAMBDA j : j # i /\ ~IsExactDuplicate(df.rows[i], df.rows[j])),
         LAMBDA others :
            [k \in DOMAIN others |->
                ScoredPair(df, i, others[k],
                    << calculate_dimension_similarity(
                           df.rows[i], df.rows[others[k]], DimensionFeatures(df)),
                       calculate_categorical_similarity(
                           df.rows[i], df.rows[others[k]], CategoricalFeatures(df)),
                       calculate_grade_property_similarity(
                           df.rows[i], df.rows[others[k]], GradePropertyFeatures(df), df) >>)])

\* list.sort(key=similarity_score, reverse=False): ascending, stable
SortAscending(entries) ==
    [k \in DOMAIN entries |->
        entries[CHOOSE i \in DOMAIN entries :
            Cardinality({j \in DOMAIN entries :
                \/ FLess(entries[j].similarity_score, entries[i].similarity_score)
                \/ /\ entries[j].similarity_score = entries[i].similarity_score
                   /\ j < i}) = k - 1]]

\* list.sort(key=similarity_score, reverse=True): descending, and stable:
\* entries of equal score keep their order
SortDescending(entries) ==
    [k \in DOMAIN entries |->
        entries[CHOOSE i \in DOMAIN entries :
            Cardinality({j \in DOMAIN entries :
                \/ FLess(entries[i].similarity_score, entries[j].similarity_score)
                \/ /\ entries[j].similarity_score = entries[i].similarity_score
                   /\ j < i}) = k - 1]]

TopN == 3

\* rfq_similarities[:3] after the sort
Top3(entries) ==
    Bind(SortDescending(entries),
         LAMBDA sorted : SubSeq(sorted, 1, IF Len(sorted) < TopN THEN Len(sorted) ELSE TopN))

RECURSIVE Extend(_, _)
\* similarity_results.extend(...) over the lists of the records 1..k
Extend(lists, k) ==
    IF k = 0 THEN << >> ELSE Extend(lists, k - 1) \o lists[k]

\* calculate_rfq_similarity(feature_df). The batches of 50 only group the
\* progress output: records are scanned in table order. `scored` keeps the
\* rfq_similarities list of each valid record, which the code discards.
\* An empty similarity_results makes a DataFrame without columns, and
\* results_df['similarity_score'] raises KeyError.
calculate_rfq_similarity(df) ==
    IF "id" \notin df.columns
    THEN [raised |-> KeyError("id"), results_df |-> << >>, scored |-> << >>]
    ELSE Bind(ValidRows(df),
         LAMBDA valid :
            IF FirstRaisingPair(df, valid) # << >>
            THEN Bind(FirstRaisingPair(df, valid),
                      LAMBDA p :
                         [raised |-> KeyError(MissingKey(df.columns,
                                                         df.rows[valid[p[1]]],
                                                         df.rows[valid[p[2]]])),
                          results_df |-> << >>,
                          scored |-> << >>])
            ELSE Bind([k \in DOMAIN valid |-> RfqSimilarities(df, valid, valid[k])],
                 LAMBDA scored :
                    Bind(Extend([k \in DOMAIN scored |-> Top3(scored[k])], Len(scored)),
                         LAMBDA similarity :
                            [raised |-> IF similarity = << >>
                                        THEN KeyError("similarity_score") ELSE "",
                             results_df |-> similarity,
                             scored |-> scored])))

---------------------------------------------------------------------------
(* Inputs of the feature stage: the parsed table                           *)

MaxRows == 3
RankRows == 5

ParsedColumns ==
    {"id", "grade", "grade_clean", "thickness_min", "thickness_max",
     "width_min", "width_max", "coating", "Grade/Material", "Carbon_C_mid"}

\* One row of the parsed table: an id, the RFQ's grade, thickness and width
\* ranges and coating, and what the joined reference row gives (its name
\* and the parsed carbon midpoint; both missing without a reference row).
ParsedRow(id, grade_text, thickness, width, coating, reference) ==
    [c \in ParsedColumns |->
        CASE c = "id" -> id
          [] c = "grade" -> grade_text
          [] c = "grade_clean" -> clean_grade_string(grade_text)
          [] c = "thickness_min" -> thickness[1]
          [] c = "thickness_max" -> thickness[2]
          [] c = "width_min" -> width[1]
          [] c = "width_max" -> width[2]
          [] c = "coating" -> coating
          [] c = "Grade/Material" -> reference[1]
          [] c = "Carbon_C_mid" -> reference[2]]

S235 == <<"S", "2", "3", "5">>
S275 == <<"S", "2", "7", "5">>
S355 == <<"S", "3", "5", "5">>
Zinc == <<"z", "n">>
ZincPadded == <<" ", "Z", "N", " ">>
NoReference == <<None, NaN>>

\* the RFQ contents and reference data a row can carry
RowProfiles ==
    { <<S235, <<FInt(1), FInt(3)>>, <<FInt(5), FInt(7)>>, Zinc, <<S235, Frac(1, 10)>> >>,
      <<S355, <<FInt(2), FInt(4)>>, <<FInt(5), FInt(7)>>, ZincPadded, <<S355, Frac(2, 10)>> >>,
      <<S275, <<FInt(7), NaN>>, <<NaN, NaN>>, None, <<S275, Frac(3, 10)>> >>,
      <<S235, <<FInt(1), FInt(3)>>, <<NaN, NaN>>, None, <<S235, Frac(1, 10)>> >>,
      <<None, <<NaN, NaN>>, <<NaN, NaN>>, None, NoReference>> }

RowIds == {NaN, <<1>>, <<2>>}

RichRows ==
    {ParsedRow(id, p[1], p[2], p[3], p[4], p[5]) : id \in RowIds, p \in RowProfiles}

\* tables of up to MaxRows rows whose ids may be missing or repeated
RichTables == TablesUpTo(RichRows, MaxRows)

RankThickness ==
    { <<FInt(1), FInt(3)>>, <<FInt(2), FInt(4)>>, <<FInt(1), FInt(4)>>, <<NaN, NaN>> }

\* tables of RankRows rows with the ids 1..RankRows that differ in the
\* thickness range only
RankTables ==
    { [i \in 1..RankRows |->
         ParsedRow(<<i>>, S235, t[i], <<FInt(5), FInt(7)>>, Zinc, <<S235, Frac(1, 10)>>)] :
        t \in [1..RankRows -> RankThickness] }

SchemaRows == 2

\* the optional columns an RFQ table can come without
AbsentColumnSets ==
    { {"thickness_min", "thickness_max"},
      {"width_max"},
      {"coating"},
      {"thickness_min", "thickness_max", "width_min", "width_max", "coating"} }

\* tables of up to SchemaRows rows with ids, without some optional columns
SchemaTables ==
    { [columns |-> ParsedColumns \ absent,
       rows |-> [i \in DOMAIN rows |-> [c \in ParsedColumns \ absent |-> rows[i][c]]]] :
        absent \in AbsentColumnSets,
        rows \in TablesUpTo({r \in RichRows : r["id"] # NaN}, SchemaRows) }

NotCalled == [raised |-> "", results_df |-> << >>, scored |-> << >>]

SimInit ==
    /\ pc = "sim:parsed"
    /\ \/ \E rows \in RichTables \cup RankTables :
              parsed_df = [columns |-> ParsedColumns, rows |-> rows]
       \/ parsed_df \in SchemaTables
    /\ feature_df = [columns |-> {}, rows |-> << >>]
    /\ similarity_results = NotCalled
    /\ intervals = << >>
    /\ overlap = << >>
    /\ grade = None
    /\ grade_clean = None
    /\ value_str = None
    /\ parsed = << >>
    /\ rfq_df = << >>
    /\ reference_df = << >>
    /\ runs = << >>

\* feature_df = engineer_similarity_features(parsed_df)
EngineerSimilarityFeatures ==
    /\ pc = "sim:parsed"
    /\ \E r \in {engineer_similarity_features(parsed_df)} :
           IF r.raised = ""
           THEN /\ feature_df' = r.df_work
                /\ pc' = "sim:features"
                /\ UNCHANGED similarity_results
           ELSE /\ similarity_results' = [NotCalled EXCEPT !.raised = r.raised]
                /\ pc' = "sim:raised"
                /\ UNCHANGED feature_df
    /\ UNCHANGED <<parsed_df, cleanVars, parseVars, normVars, overlapVars>>

\* similarity_results = calculate_rfq_similarity(feature_df)
CalculateRfqSimilarity ==
    /\ pc = "sim:features"
    /\ similarity_results' = calculate_rfq_similarity(feature_df)
    /\ pc' = "sim:done"
    /\ UNCHANGED <<parsed_df, feature_df, cleanVars, parseVars, normVars, overlapVars>>

SimNext == EngineerSimilarityFeatures \/ CalculateRfqSimilarity

SpecSim == SimInit /\ [][SimNext]_vars

---------------------------------------------------------------------------
(* Claims about calculate_rfq_similarity                                   *)

Results == similarity_results.results_df

\* the rows of the result that the record at position i of feature_df emitted
EmittedBy(i) == SelectSeq(Results, LAMBDA e : e.rfq_row = i)

\* C2: the returned table has at most 3 rows for each distinct rfq_id.
C2_AtMostThreePerRfqId ==
    pc = "sim:done" =>
        \A k \in DOMAIN Results :
            Cardinality({m \in DOMAIN Results : Results[m].rfq_id = Results[k].rfq_id}) <= 3

\* C3: the rows a source record emits are the first min(3, n) of its n
\* scored candidates after a stable sort by descending aggregate score:
\* scores do not increase down the rows, equal scores keep scan order, and
\* no omitted candidate would sort before an emitted one.
C3_TopThreeStableDescending ==
    pc = "sim:done" =>
        \A k \in DOMAIN similarity_results.scored :
            \E i \in {ValidRows(feature_df)[k]},
               candidates \in {similarity_results.scored[k]} :
                \E emitted \in {EmittedBy(i)} :
                    /\ Len(emitted) = IF Len(candidates) < 3 THEN Len(candidates) ELSE 3
                    /\ \A a \in DOMAIN emitted :
                           \E c \in DOMAIN candidates : candidates[c] = emitted[a]
                    /\ \A a, b \in DOMAIN emitted :
                           a < b =>
                              /\ FLeq(emitted[b].similarity_score,
                                      emitted[a].similarity_score)
                              /\ emitted[b].similarity_score = emitted[a].similarity_score
                                   => emitted[a].match_row < emitted[b].match_row
                    /\ \A c \in DOMAIN candidates, a \in DOMAIN emitted :
                           (\A b \in DOMAIN emitted : emitted[b] # candidates[c]) =>
                              /\ FLeq(candidates[c].similarity_score,
                                      emitted[a].similarity_score)
                              /\ candidates[c].similarity_score
                                     = emitted[a].similarity_score
                                   => emitted[a].match_row < candidates[c].match_row

\* C3 witness: a record with more than 3 scored candidates, whose emitted
\* rows hold two of equal score and are not in scan order, and which omits
\* a candidate of strictly lower score.
C3_Witness ==
    /\ pc = "sim:done"
    /\ \E k \in DOMAIN similarity_results.scored :
           \E emitted \in {EmittedBy(ValidRows(feature_df)[k])},
              candidates \in {similarity_results.scored[k]} :
               /\ Len(candidates) > 3
               /\ Len(emitted) = 3
               /\ \E a, b \in DOMAIN emitted :
                      /\ a < b
                      /\ emitted[a].similarity_score = emitted[b].similarity_score
               /\ \E a, b \in DOMAIN emitted :
                      a < b /\ emitted[a].match_row > emitted[b].match_row
               /\ \E c \in DOMAIN candidates :
                      FLess(candidates[c].similarity_score, emitted[3].similarity_score)

\* grade, thickness-center and width-center of two records are all the same
SameGradeAndCenters(row1, row2) ==
    /\ row1["grade"] = row2["grade"]
    /\ row1["thickness_center"] = row2["thickness_center"]
    /\ row1["width_center"] = row2["width_center"]

\* C4: no row of the result pairs two records whose grade, thickness-center
\* and width-center are all the same.
C4_NoExactDuplicatePair ==
    pc = "sim:done" /\ {"thickness_center", "width_center"} \subseteq feature_df.columns =>
        \A k \in DOMAIN Results :
            ~SameGradeAndCenters(feature_df.rows[Results[k].rfq_row],
                                 feature_df.rows[Results[k].match_row])

InUnitInterval(x) == FLeq(Zero, x) /\ FLeq(x, One)

\* C5: for every scored pair the aggregate is 0.50*dimension + 0.20*
\* categorical + 0.30*property, the three group similarities and the
\* aggregate lie in [0,1], and the aggregate is 0 only when all three
\* group similarities are 0.
C5_AggregateIsWeightedSum ==
    pc = "sim:done" =>
        \A k \in DOMAIN similarity_results.scored :
            \A c \in DOMAIN similarity_results.scored[k] :
                \E e \in {similarity_results.scored[k][c]} :
                    /\ e.similarity_score
                         = FAdd(FAdd(FMul(Frac(1, 2), e.dimension_similarity),
                                     FMul(Frac(1, 5), e.categorical_similarity)),
                                FMul(Frac(3, 10), e.property_similarity))
                    /\ InUnitInterval(e.dimension_similarity)
                    /\ InUnitInterval(e.categorical_similarity)
                    /\ InUnitInterval(e.property_similarity)
                    /\ InUnitInterval(e.similarity_score)
                    /\ e.similarity_score = Zero =>
                          /\ e.dimension_similarity = Zero
                          /\ e.categorical_similarity = Zero
                          /\ e.property_similarity = Zero

\* C5 witness: one record scored against a candidate with all three group
\* similarities positive and an aggregate strictly between 0 and 1, and
\* against another with aggregate 0.
C5_Witness ==
    /\ pc = "sim:done"
    /\ \E k \in DOMAIN similarity_results.scored :
           \E a, b \in DOMAIN similarity_results.scored[k] :
               \E e \in {similarity_results.scored[k][a]},
                  z \in {similarity_results.scored[k][b]} :
                   /\ FLess(Zero, e.dimension_similarity)
                   /\ FLess(e.dimension_similarity, One)
                   /\ FLess(Zero, e.categorical_similarity)
                   /\ FLess(Zero, e.property_similarity)
                   /\ FLess(e.property_similarity, One)
                   /\ FLess(Zero, e.similarity_score)
                   /\ FLess(e.similarity_score, One)
                   /\ z.similarity_score = Zero

\* the record at position i has an id, and no other record has the same id
HasUniqueId(i) ==
    /\ feature_df.rows[i]["id"] # NaN
    /\ \A j \in DOMAIN feature_df.rows :
           j # i => feature_df.rows[j]["id"] # feature_df.rows[i]["id"]

\* C6: a record with a null id, or with an id shared with another record,
\* appears in no row of the result, neither as rfq_id nor as match_id.
C6_InvalidRecordsExcluded ==
    pc = "sim:done" =>
        \A k \in DOMAIN Results :
            HasUniqueId(Results[k].rfq_row) /\ HasUniqueId(Results[k].match_row)

\* the valid record at position i has no eligible counterpart: every other
\* valid record is skipped as its exact duplicate
NoEligibleCounterpart(i) ==
    /\ feature_df.rows[i]["id"] # NaN
    /\ \A j \in DOMAIN feature_df.rows :
           j # i /\ feature_df.rows[j]["id"] # NaN
              => IsExactDuplicate(feature_df.rows[i], feature_df.rows[j])

\* C7: when some or all records have no eligible counterpart, the call
\* returns normally and those records contribute no row.
C7_NoCounterpartIsNoError ==
    pc = "sim:done" /\ (\E i \in DOMAIN feature_df.rows : NoEligibleCounterpart(i)) =>
        /\ similarity_results.raised = ""
        /\ \A i \in DOMAIN feature_df.rows :
               NoEligibleCounterpart(i) => EmittedBy(i) = << >>

\* the dimension pairs of create_dimension_intervals with a source column
\* absent from the table
AbsentPairs(df) ==
    {p \in dimension_pairs : p.min_col \notin df.columns \/ p.max_col \notin df.columns}

\* C14: on a table that has the columns id and grade, whichever optional
\* columns are absent, engineer_similarity_features skips the absent
\* dimension pairs and calculate_rfq_similarity completes the pairwise
\* scoring: nothing is raised before the result table is built.
C14_OptionalColumnsMayBeAbsent ==
    pc = "sim:done" /\ {"id", "grade"} \subseteq parsed_df.columns =>
        /\ \A p \in AbsentPairs(parsed_df), sfx \in IntervalSuffixes :
               p.feature_name \o sfx \notin feature_df.columns
        /\ similarity_results.raised \in {"", KeyError("similarity_score")}

UNKNOWN == <<"U", "N", "K", "N", "O", "W", "N">>

\* the categorical attributes the parsed table has
CategoricalPresent == categorical_features \cap parsed_df.columns

\* both records lack a value for the categorical attribute c
BothLack(i, j, c) == parsed_df.rows[i][c] = None /\ parsed_df.rows[j][c] = None

\* C16: standardize_categorical_features turns every null categorical value
\* into "UNKNOWN", so the null branch of categorical_match is never reached
\* for a standardized feature, two records that both lack the attribute
\* score 1 on it, and calculate_categorical_similarity is 1 for a pair that
\* lacks every categorical attribute on both sides.
C16_MissingCategoricalAgrees ==
    pc = "sim:done" =>
        /\ CategoricalFeatures(feature_df) = {c \o "_clean" : c \in CategoricalPresent}
        /\ \A i \in DOMAIN feature_df.rows, c \in CategoricalPresent :
               /\ feature_df.rows[i][c \o "_clean"] # None
               /\ parsed_df.rows[i][c] = None => feature_df.rows[i][c \o "_clean"] = UNKNOWN
        /\ \A i, j \in DOMAIN feature_df.rows, c \in CategoricalPresent :
               BothLack(i, j, c) =>
                  categorical_match(feature_df.rows[i][c \o "_clean"],
                                    feature_df.rows[j][c \o "_clean"]) = One
        /\ \A k \in DOMAIN similarity_results.scored :
               \A m \in DOMAIN similarity_results.scored[k] :
                   \E e \in {similarity_results.scored[k][m]} :
                       (CategoricalPresent # {}
                          /\ \A c \in CategoricalPresent : BothLack(e.rfq_row, e.match_row, c))
                       => e.categorical_similarity = One

\* C16 witness: two records without a coating were scored against each
\* other, with categorical similarity 1.
C16_Witness ==
    /\ pc = "sim:done"
    /\ "coating" \in parsed_df.columns
    /\ \E k \in DOMAIN similarity_results.scored :
           \E m \in DOMAIN similarity_results.scored[k] :
               \E e \in {similarity_results.scored[k][m]} :
                   /\ BothLack(e.rfq_row, e.match_row, "coating")
                   /\ feature_df.rows[e.rfq_row]["coating_clean"] = UNKNOWN
                   /\ e.categorical_similarity = One

\* the entries that the k-th valid record scored against the record at
\* position j of feature_df
ScoredAgainst(k, j) ==
    {similarity_results.scored[k][m] :
        m \in {n \in DOMAIN similarity_results.scored[k] :
                 similarity_results.scored[k][n].match_row = j}}

\* C17: pair scoring is symmetric: for two distinct valid records A and B,
\* (A,B) is skipped as an exact duplicate iff (B,A) is, and otherwise the
\* dimension, categorical, property and aggregate scores of (A,B) equal
\* those of (B,A).
C17_ScoringIsSymmetric ==
    pc = "sim:done" =>
        \A k1, k2 \in DOMAIN similarity_results.scored :
            k1 # k2 =>
                \E ab \in {ScoredAgainst(k1, ValidRows(feature_df)[k2])},
                   ba \in {ScoredAgainst(k2, ValidRows(feature_df)[k1])} :
                    /\ ab = {} <=> ba = {}
                    /\ \A x \in ab, y \in ba :
                           /\ x.rfq_row = y.match_row
                           /\ x.dimension_similarity = y.dimension_similarity
                           /\ x.categorical_similarity = y.categorical_similarity
                           /\ x.property_similarity = y.property_similarity
                           /\ x.similarity_score = y.similarity_score

\* C17 witness: two records whose thickness intervals have different
\* lengths and overlap in part were scored in both directions, and a pair
\* of exact duplicates was skipped in both directions.
C17_Witness ==
    /\ pc = "sim:done"
    /\ \E k1, k2 \in DOMAIN similarity_results.scored :
           \E x \in ScoredAgainst(k1, ValidRows(feature_df)[k2]),
              y \in ScoredAgainst(k2, ValidRows(feature_df)[k1]) :
               /\ feature_df.rows[x.rfq_row]["thickness_width"] # NaN
               /\ feature_df.rows[y.rfq_row]["thickness_width"] # NaN
               /\ feature_df.rows[x.rfq_row]["thickness_width"]
                    # feature_df.rows[y.rfq_row]["thickness_width"]
               /\ FLess(Zero, x.dimension_similarity)
               /\ FLess(x.dimension_similarity, One)
               /\ x.similarity_score = y.similarity_score
    /\ \E k1, k2 \in DOMAIN similarity_results.scored :
           /\ k1 # k2
           /\ ScoredAgainst(k1, ValidRows(feature_df)[k2]) = {}
           /\ ScoredAgainst(k2, ValidRows(feature_df)[k1]) = {}

---------------------------------------------------------------------------
(* interval_overlap_ratio on its own                                       *)

MaxStep == 3

\* a missing bound, or a multiple of 5 from -5 to 5 * MaxStep
IntervalBounds == {NaN} \cup {FInt(5 * k) : k \in -1..MaxStep}

OverlapInit ==
    /\ pc = "overlap:start"
    /\ intervals \in IntervalBounds \X IntervalBounds \X IntervalBounds \X IntervalBounds
    /\ overlap = NaN
    /\ grade = None
    /\ grade_clean = None
    /\ value_str = None
    /\ parsed = << >>
    /\ rfq_df = << >>
    /\ reference_df = << >>
    /\ runs = << >>
    /\ parsed_df = << >>
    /\ feature_df = << >>
    /\ similarity_results = << >>

IntervalOverlapRatio ==
    /\ pc = "overlap:start"
    /\ overlap' = interval_overlap_ratio(intervals[1], intervals[2],
                                         intervals[3], intervals[4])
    /\ pc' = "overlap:done"
    /\ UNCHANGED <<intervals, cleanVars, parseVars, normVars, simVars>>

OverlapNext == IntervalOverlapRatio

SpecOverlap == OverlapInit /\ [][OverlapNext]_vars

\* the smaller and the larger of two numbers
Lower(x, y) == IF FLeq(x, y) THEN x ELSE y
Higher(x, y) == IF FLeq(y, x) THEN x ELSE y

\* max(0, min(max1,max2) - max(min1,min2)) / (max(max1,max2) - min(min1,min2))
\* on intervals given with min <= max, 0 when the union is 0
RatioOfOrdered(lo1, hi1, lo2, hi2) ==
    IF Higher(hi1, hi2) = Lower(lo1, lo2) THEN Zero
    ELSE FDiv(Higher(Zero, FSub(Lower(hi1, hi2), Higher(lo1, lo2))),
              FSub(Higher(hi1, hi2), Lower(lo1, lo2)))

\* C11: interval_overlap_ratio is 0 if any argument is null; otherwise it
\* is overlap / union of the two intervals after each is ordered so that
\* min <= max, and 0 when the union is 0. The result is in [0,1],
\* interval_overlap_ratio(a,a,a,a) = 0 and interval_overlap_ratio(0,10,5,15)
\* = 5/15.
C11_OverlapRatio ==
    pc = "overlap:done" =>
        /\ (\E k \in 1..4 : intervals[k] = NaN) => overlap = Zero
        /\ (\A k \in 1..4 : intervals[k] # NaN) =>
              overlap = RatioOfOrdered(Lower(intervals[1], intervals[2]),
                                       Higher(intervals[1], intervals[2]),
                                       Lower(intervals[3], intervals[4]),
                                       Higher(intervals[3], intervals[4]))
        /\ FLeq(Zero, overlap) /\ FLeq(overlap, One)
        /\ (\A k \in 1..4 : intervals[k] # NaN /\ intervals[k] = intervals[1]) =>
              overlap = Zero
        /\ intervals = <<FInt(0), FInt(10), FInt(5), FInt(15)>> => overlap = Frac(5, 15)

\* C11 witness: intervals given with min > max that overlap in part
C11_Witness ==
    /\ pc = "overlap:done"
    /\ intervals = <<FInt(10), FInt(0), FInt(15), FInt(5)>>
    /\ overlap = Frac(1, 3)

=============================================================================
